---- MODULE Spec2Model ----
(***************************************************************************)
(* Model of cratri_unpac (src/src/main.rs): the PGD image codec            *)
(* (GeImage::decompress, apply_filter, apply_delta_filter, decode_main,    *)
(* decode_sub) and the per-archive extraction loop (AssetLoader::save).    *)
(*                                                                         *)
(* Positions are 0-based as in the source; TLA+ sequences are 1-based, so  *)
(* the byte at source index i of a buffer s is s[i + 1].                   *)
(*                                                                         *)
(* A Rust panic (index out of bounds, todo!(), arithmetic overflow in a    *)
(* build with overflow checks) is the outcome "panic"; an Err returned     *)
(* through `?` is the outcome "err".  Whether integer overflow panics or   *)
(* wraps depends on the build profile (overflow checks are on in cargo's   *)
(* dev profile and off in its release profile), so it is the field checks  *)
(* of each machine, chosen freely in the initial state.                    *)
(***************************************************************************)
EXTENDS Integers, Sequences, FiniteSets, TLC

VARIABLES dec, flt, sub, ldr

vars == <<dec, flt, sub, ldr>>

-----------------------------------------------------------------------------
(* Bounds of the model.                                                    *)

MaxIn == 6          \* longest compressed input of the decompress machine
MaxOut == 4         \* largest declared decompressed size
MaxEntries == 3     \* most directory entries of one archive
MaxPacs == 2        \* most archives handled by one save()
MaxWidth == 2       \* widest image of the delta-filter machine
MaxHeight == 2      \* tallest image of the delta-filter machine
MaxBytes == 12      \* most pixel bytes of an image of the delta-filter machine
MaxBase == 2        \* widest and tallest base raster of the sub-image machine
MaxBasePixels == 4  \* most pixels of a base raster of the sub-image machine
MaxSubPixels == 2   \* most pixels of a sub-image of the sub-image machine

-----------------------------------------------------------------------------
(* Machine arithmetic.                                                     *)

Min(a, b) == IF a < b THEN a ELSE b

RECURSIVE Pow2(_)
Pow2(n) == IF n = 0 THEN 1 ELSE 2 * Pow2(n - 1)

Shr(a, n) == a \div Pow2(n)
Shl(a, n) == a * Pow2(n)

RECURSIVE BitAnd(_, _)
BitAnd(a, b) ==
    IF a = 0 \/ b = 0 THEN 0
    ELSE (a % 2) * (b % 2) + 2 * BitAnd(a \div 2, b \div 2)

RECURSIVE BitOr(_, _)
BitOr(a, b) ==
    IF a = 0 THEN b
    ELSE IF b = 0 THEN a
    ELSE (IF a % 2 = 1 \/ b % 2 = 1 THEN 1 ELSE 0) + 2 * BitOr(a \div 2, b \div 2)

RECURSIVE BitXor(_, _)
BitXor(a, b) ==
    IF a = 0 THEN b
    ELSE IF b = 0 THEN a
    ELSE (((a % 2) + (b % 2)) % 2) + 2 * BitXor(a \div 2, b \div 2)

BoundedSeq(S, n) == UNION {[1..k -> S] : k \in 0..n}

-----------------------------------------------------------------------------
(* GeImage::decompress, one iteration of its token loop at a time.         *)
(*                                                                         *)
(* dec is the function's frame: input, size_orig, output, output_pos,      *)
(* input_pos, control; tok holds the locals of the token just decoded      *)
(* (output_pos before it, tmp as read, the extra byte, repetitions,        *)
(* look_behind); pc is "run"                                               *)
(* at the head of the while loop, "done" after `output` is returned and    *)
(* "panic" when an index or subtraction failed.                            *)

NoTok == [kind |-> "none", at |-> 0, w |-> 0, b |-> 0, repetitions |-> 0, look_behind |-> 0]

decompress_init(input, size_orig) ==
    [input |-> input, size_orig |-> size_orig,
     output |-> [i \in 1..size_orig |-> 0],
     output_pos |-> 0, input_pos |-> 0, control |-> 0,
     tok |-> NoTok, pc |-> "run", cause |-> "none"]

decompress_panic(d, cause) == [d EXCEPT !.pc = "panic", !.cause = cause]

\* line 36: the literal loop runs while output_pos < output.len() and
\* repetitions > 0, so it copies min(repetitions, remaining) bytes.
literal_len_untruncated(repetitions, remaining) == repetitions
literal_len(repetitions, remaining) == Min(repetitions, remaining)

\* line 53: the same guard on the back-reference loop.
copy_len(repetitions, remaining) == Min(repetitions, remaining)

\* lines 34-41: literal run.
literal_run(d, control, ip) ==
    IF ip >= Len(d.input) THEN decompress_panic(d, "input_index")
    ELSE
      LET repetitions == d.input[ip + 1]
          ip2 == ip + 1
          n == literal_len(repetitions, d.size_orig - d.output_pos)
      IN IF ip2 + n > Len(d.input) THEN decompress_panic(d, "input_index")
         ELSE [d EXCEPT
                 !.control = control,
                 !.output = [i \in 1..d.size_orig |->
                               IF i > d.output_pos /\ i <= d.output_pos + n
                               THEN d.input[ip2 + (i - d.output_pos)]
                               ELSE d.output[i]],
                 !.output_pos = d.output_pos + n,
                 !.input_pos = ip2 + n,
                 !.tok = [kind |-> "literal", at |-> d.output_pos, w |-> 0, b |-> 0,
                          repetitions |-> repetitions, look_behind |-> 0]]

\* line 48: (((tmp & 0x0ffc) >> 2) + 1 << 2 | tmp & 3, tmp >> 12); in Rust
\* `+` binds tighter than `<<`, which binds tighter than `&`, then `|`.
long_form_no_bias(tmp) ==
    <<BitOr(Shl(Shr(BitAnd(tmp, 4092), 2), 2), BitAnd(tmp, 3)), Shr(tmp, 12)>>
long_form(tmp) ==
    <<BitOr(Shl(Shr(BitAnd(tmp, 4092), 2) + 1, 2), BitAnd(tmp, 3)), Shr(tmp, 12)>>

\* line 50: ((tmp & 7) + 4, tmp >> 4)
short_form(tmp) == <<BitAnd(tmp, 7) + 4, Shr(tmp, 4)>>

\* lines 53-58: the byte-at-a-time copy, which may overlap what it writes.
RECURSIVE copy_back(_, _, _, _)
copy_back(output, output_pos, pos, n) ==
    IF n = 0 THEN output
    ELSE copy_back([output EXCEPT ![output_pos + 1] = output[pos + 1]],
                   output_pos + 1, pos + 1, n - 1)

\* lines 43-58: back-reference run.
back_reference(d, control, ip) ==
    IF ip + 1 >= Len(d.input) THEN decompress_panic(d, "input_index")
    ELSE
      LET w == d.input[ip + 1] + 256 * d.input[ip + 2]   \* u16::from_le_bytes
          long == BitAnd(w, 8) = 0
      IN IF long /\ ip + 2 >= Len(d.input) THEN decompress_panic(d, "input_index")
         ELSE
           LET b == IF long THEN d.input[ip + 3] ELSE 0
               rl == IF long THEN long_form(BitOr(Shl(w, 8), b)) ELSE short_form(w)
               ip2 == IF long THEN ip + 3 ELSE ip + 2
               tok == [kind |-> IF long THEN "long" ELSE "short", at |-> d.output_pos,
                       w |-> w, b |-> b,
                       repetitions |-> rl[1], look_behind |-> rl[2]]
               n == copy_len(rl[1], d.size_orig - d.output_pos)
           IN \* line 52: output_pos - look_behind underflows when the distance
              \* reaches before the output: a panic with overflow checks, and
              \* without them a wrapped pos >= 2^64 - 65535 whose first read
              \* output[pos] (line 54, always reached: the loop guard holds and
              \* repetitions > 0) panics on the index.
              IF rl[2] > d.output_pos
              THEN [decompress_panic(d, "look_behind") EXCEPT !.tok = tok]
              ELSE [d EXCEPT
                      !.control = control,
                      !.output = copy_back(d.output, d.output_pos,
                                           d.output_pos - rl[2], n),
                      !.output_pos = d.output_pos + n,
                      !.input_pos = ip2,
                      !.tok = tok]

\* lines 27-60: the loop test and one pass through the loop body.
decompress_iter(d) ==
    IF ~(d.output_pos < d.size_orig) THEN [d EXCEPT !.pc = "done"]
    ELSE
      LET shifted == Shr(d.control, 1)
          refill == BitAnd(shifted, 256) = 0
      IN IF refill /\ d.input_pos >= Len(d.input)
         THEN decompress_panic(d, "input_index")
         ELSE
           LET control == IF refill
                          THEN BitOr(d.input[d.input_pos + 1], 65280)
                          ELSE shifted
               ip == IF refill THEN d.input_pos + 1 ELSE d.input_pos
           IN IF BitAnd(control, 1) = 0
              THEN literal_run(d, control, ip)
              ELSE back_reference(d, control, ip)

RECURSIVE decompress_loop(_)
decompress_loop(d) == IF d.pc # "run" THEN d ELSE decompress_loop(decompress_iter(d))

\* lines 22-62: the whole function.
decompress(input, size_orig) == decompress_loop(decompress_init(input, size_orig))

\* Input bytes of the decompress machine: control bytes 0, 1, 2; literal
\* counts 0, 1, 2; 16 = low byte of a long-form word (bit 3 clear) and
\* 24 = low byte of a short-form word (bit 3 set), both with distance 1
\* when the high byte is 0.
DecBytes == {0, 1, 2, 16, 24}

DecInit ==
    /\ \E input \in BoundedSeq(DecBytes, MaxIn), size_orig \in 0..MaxOut :
         dec = decompress_init(input, size_orig)
    /\ flt = 0 /\ sub = 0 /\ ldr = 0

DecompressStep ==
    /\ dec.pc = "run"
    /\ dec' = decompress_iter(dec)
    /\ UNCHANGED <<flt, sub, ldr>>

SpecDecompress == DecInit /\ [][DecompressStep]_vars

IsBackRef(t) == t.kind \in {"short", "long"}

\* C1: a back-reference with distance 0 or a distance reaching before the
\* output start, or a token that needs an input byte past the end of the
\* input, makes decompress return the CorruptStream error value (outcome
\* "err"): it neither crashes nor goes on to return an output buffer.
C1_BadTokenIsCorruptStream ==
    LET bad == \/ dec.cause \in {"look_behind", "input_index"}
               \/ IsBackRef(dec.tok) /\ dec.tok.look_behind = 0
    IN bad => dec.pc = "err"

\* C5 as claimed: the long form builds v from the word and one more byte,
\* its length is ((((bits 2..11 of v) + 1) << 2) | (v & 3)) + 4 and its
\* distance is bits 12..19 of v; the short form is (w & 7) + 4 and bits
\* 4..15 of w.
C5_LongFormAsClaimed ==
    LET t == dec.tok
        v == t.w * 256 + t.b
    IN /\ t.kind = "short" =>
            t.repetitions = (t.w % 8) + 4 /\ t.look_behind = t.w \div 16
       /\ t.kind = "long" =>
            /\ t.repetitions = (4 * (((v \div 4) % 1024) + 1) + (v % 4)) + 4
            /\ t.look_behind = (v \div 4096) % 256

\* C5 (amended): for every back-reference token read from the word w, the
\* short form (bit 3 of w set) has length (w & 7) + 4 and distance bits
\* 4..15 of w; the long form (bit 3 clear) reads one more byte b to build
\* the 24-bit v = w << 8 | b and has length (((bits 2..11 of v) + 1) << 2)
\* | (v & 3), which is ((w & 7) << 8 | b) + 4 with the bias counted once,
\* and distance bits 12..23 of v, which is again bits 4..15 of w.  Every
\* back-reference has a length of at least 4.
C5_TokenDecoding ==
    LET t == dec.tok
        v == t.w * 256 + t.b
    IN /\ t.kind = "short" =>
            /\ (t.w \div 8) % 2 = 1
            /\ t.repetitions = (t.w % 8) + 4
            /\ t.look_behind = t.w \div 16
       /\ t.kind = "long" =>
            /\ (t.w \div 8) % 2 = 0
            /\ t.repetitions = 4 * ((v \div 4) % 1024) + (v % 4) + 4
            /\ t.repetitions = (t.w % 8) * 256 + t.b + 4
            /\ t.look_behind = v \div 4096
            /\ t.look_behind = t.w \div 16
       /\ IsBackRef(t) => t.repetitions >= 4

\* A long-form back-reference that was decoded and then copied.
C5_Witness ==
    /\ dec.tok.kind = "long" /\ dec.pc = "run"
    /\ dec.output_pos > dec.tok.at

C10_Inv ==
    /\ Len(dec.output) = dec.size_orig
    /\ dec.output_pos <= dec.size_orig
    /\ dec.input_pos <= Len(dec.input)
    /\ dec.pc = "done" => dec.output_pos = dec.size_orig

C10_Step ==
    /\ dec.pc = "run"
    /\ dec.output_pos = dec.size_orig =>
         \* the loop test fails: nothing more is read or written
         /\ dec'.pc = "done"
         /\ dec'.input_pos = dec.input_pos /\ dec'.output = dec.output
         /\ dec'.control = dec.control
    /\ dec.output_pos < dec.size_orig /\ dec'.pc = "run" =>
         \* a token was read: input consumed, the run cut at the end
         /\ dec'.input_pos > dec.input_pos
         /\ dec'.tok.at = dec.output_pos
         /\ dec'.output_pos =
              Min(dec.output_pos + dec'.tok.repetitions, dec.size_orig)
    /\ dec.output_pos < dec.size_orig => dec'.pc \in {"run", "panic"}

\* C10: decompress stops exactly when size_orig bytes have been produced:
\* when it returns the output has exactly size_orig bytes, output_pos never
\* passes size_orig, a run longer than the remaining space is cut
\* mid-token, and once the output is full the loop test ends the function
\* without reading another control bit or token.  It always finishes:
\* input_pos never passes the end of the input and every iteration that
\* stays in the loop consumes at least one input byte (so a zero-count
\* literal run cannot loop forever), which bounds the number of iterations
\* by the input length.
C10_StopsAtDeclaredSize == []C10_Inv /\ [][C10_Step]_vars

\* The output filled up in the middle of a back-reference run, and the
\* function returned.
C10_Witness ==
    /\ dec.pc = "done" /\ IsBackRef(dec.tok)
    /\ dec.tok.at + dec.tok.repetitions > dec.size_orig
    /\ dec.tok.at < dec.size_orig

-----------------------------------------------------------------------------
(* GeImage::apply_delta_filter, one row (one pass of `for y`) at a time.   *)
(*                                                                         *)
(* flt is the function's frame: data (reconstructed in place), deltas,     *)
(* width, height, channels and the row counter y; encoded keeps the bytes  *)
(* the function was called with; checks says whether the build has         *)
(* overflow checks (the dev profile) or wraps (the release profile).       *)

\* u8 - u8 (lines 112, 117, 123): a panic with overflow checks when the
\* result would be negative, otherwise the difference modulo 256.
sub_u8(a, b, checks) ==
    IF checks /\ a < b THEN [ok |-> FALSE, v |-> 0]
    ELSE [ok |-> TRUE, v |-> (a - b + 256) % 256]

\* The predictor of each match arm: line 112 reads next[x - channels],
\* line 117 prev[x], line 122 their u16 mean.
predicted(mode, above, left) ==
    CASE mode = 1 -> left
      [] mode = 2 -> above
      [] mode = 4 -> Shr(above + left, 1) % 256

\* The columns each arm's `for x` covers.
first_column(mode, channels) == IF mode = 2 THEN 0 ELSE channels

\* One row's `for x` loop: row and above are the current and the previous
\* row (stride bytes each), x the next column.  Later columns read the
\* bytes earlier columns wrote.
RECURSIVE row_pass(_, _, _, _, _, _)
row_pass(row, above, mode, channels, x, checks) ==
    IF x >= Len(row) THEN [ok |-> TRUE, row |-> row]
    ELSE
      LET left == IF x >= channels THEN row[x + 1 - channels] ELSE 0
          r == sub_u8(predicted(mode, above[x + 1], left), row[x + 1], checks)
      IN IF ~r.ok THEN [ok |-> FALSE, row |-> row]
         ELSE row_pass([row EXCEPT ![x + 1] = r.v], above, mode, channels,
                       x + 1, checks)

delta_panic(f, cause) == [f EXCEPT !.pc = "panic", !.cause = cause]

delta_init(data, deltas, width, height, channels, checks) ==
    [encoded |-> data, data |-> data, deltas |-> deltas, width |-> width,
     height |-> height, channels |-> channels, checks |-> checks,
     y |-> 0, pc |-> "run", cause |-> "none"]

\* lines 105-128: the loop test and one pass through `for y`.  garbage is
\* the byte read through prev on row 0, where prev points before the
\* buffer.
delta_row(f, garbage) ==
    LET stride == f.width * f.channels
        lo == f.y * stride
    IN IF ~(f.y < f.height) THEN [f EXCEPT !.pc = "done"]
       \* line 107: (y - 1) * stride with y = 0 in usize
       ELSE IF f.y = 0 /\ f.checks THEN delta_panic(f, "row_above_underflow")
       \* line 109: deltas[y]
       ELSE IF f.y >= Len(f.deltas) THEN delta_panic(f, "deltas_index")
       ELSE
         LET mode == f.deltas[f.y + 1]
         IN IF mode \notin {1, 2, 4} THEN delta_panic(f, "todo_mode")   \* line 126
            ELSE IF first_column(mode, f.channels) >= stride
            THEN [f EXCEPT !.y = f.y + 1]                         \* empty loop
            \* the raw pointers are not bounds-checked: a row past the end
            \* of data is read and written outside the buffer
            ELSE IF lo + stride > Len(f.data)
            THEN [f EXCEPT !.pc = "ub", !.cause = "out_of_bounds"]
            ELSE
              LET row == [x \in 1..stride |-> f.data[lo + x]]
                  above == [x \in 1..stride |->
                              IF f.y = 0 THEN garbage ELSE f.data[lo - stride + x]]
                  r == row_pass(row, above, mode, f.channels,
                                first_column(mode, f.channels), f.checks)
              IN IF ~r.ok THEN delta_panic(f, "u8_subtract")
                 ELSE [f EXCEPT
                         !.data = [i \in 1..Len(f.data) |->
                                     IF i > lo /\ i <= lo + stride
                                     THEN r.row[i - lo] ELSE f.data[i]],
                         !.y = f.y + 1]

RECURSIVE delta_loop(_, _)
delta_loop(f, garbage) ==
    IF f.pc # "run" THEN f ELSE delta_loop(delta_row(f, garbage), garbage)

\* lines 97-130: the whole function.
apply_delta_filter(data, deltas, width, height, channels, checks, garbage) ==
    delta_loop(delta_init(data, deltas, width, height, channels, checks), garbage)

\* Bytes of the delta-filter machine and what a read before the buffer may
\* return.
DeltaBytes == {1, 254}
Garbage == {0, 255}
DeltaModes == {1, 2, 3, 4}

DeltaInit ==
    /\ \E width \in 1..MaxWidth, height \in 1..MaxHeight, channels \in {3, 4},
          checks \in BOOLEAN :
         /\ width * height * channels <= MaxBytes
         /\ \E data \in [1..(width * height * channels) -> DeltaBytes],
               deltas \in [1..height -> DeltaModes] :
              flt = delta_init(data, deltas, width, height, channels, checks)
    /\ dec = 0 /\ sub = 0 /\ ldr = 0

DeltaRow ==
    /\ flt.pc = "run"
    /\ \E garbage \in Garbage : flt' = delta_row(flt, garbage)
    /\ UNCHANGED <<dec, sub, ldr>>

SpecDelta == DeltaInit /\ [][DeltaRow]_vars

AllModeOne(f) == \A y \in 1..f.height : f.deltas[y] = 1
ValidModes(f) == \A y \in 1..f.height : f.deltas[y] \in {1, 2, 4}

\* Byte x (0-based) of row y (0-based) of a buffer of the frame f.
ByteAt(f, buf, y, x) == buf[y * f.width * f.channels + x + 1]

\* C6: an image whose every row, row 0 included, has mode byte 1 is
\* reconstructed without error for every width, height and channel count
\* 3 or 4: in each finished row the first `channels` bytes are unchanged
\* and each later byte x is (reconstructed[x - channels] - encoded[x]) mod 256.
C6_ModeOneReconstructs ==
    AllModeOne(flt) =>
      /\ flt.pc \in {"run", "done"}
      /\ \A y \in 0..(flt.y - 1), x \in 0..(flt.width * flt.channels - 1) :
           ByteAt(flt, flt.data, y, x) =
             IF x < flt.channels THEN ByteAt(flt, flt.encoded, y, x)
             ELSE (ByteAt(flt, flt.data, y, x - flt.channels)
                   - ByteAt(flt, flt.encoded, y, x) + 256) % 256

\* C7: reconstruction is the per-byte inverse of the encoder modulo 256
\* and its subtraction never fails: for every mode in {1, 2, 4} the filter
\* does not stop on a row, and in each finished row below row 0 every
\* filtered byte satisfies encoded = (predicted - reconstructed) mod 256,
\* with predicted taken from the reconstructed neighbours.
C7_DeltaInvertsEncoder ==
    ValidModes(flt) =>
      /\ flt.pc \in {"run", "done"}
      /\ \A y \in 1..(flt.y - 1), x \in 0..(flt.width * flt.channels - 1) :
           LET mode == flt.deltas[y + 1]
               left == IF x >= flt.channels
                       THEN ByteAt(flt, flt.data, y, x - flt.channels) ELSE 0
               pred == predicted(mode, ByteAt(flt, flt.data, y - 1, x), left)
           IN x >= first_column(mode, flt.channels) =>
                ByteAt(flt, flt.encoded, y, x)
                  = (pred - ByteAt(flt, flt.data, y, x) + 256) % 256

-----------------------------------------------------------------------------
(* GeImage::apply_filter: the planar filter.                               *)

Max(a, b) == IF a > b THEN a ELSE b

\* `as i8` on a byte (lines 67-69 reinterpret the buffer as [i8]).
as_i8(b) == IF b >= 128 THEN b - 256 ELSE b

\* (v >> 7).clamp(0, 255) on i32: >> is an arithmetic shift (floor).
shift_clamp(v) == Max(0, Min(255, v \div 128))

\* lines 80-85: the four sub-pixels of one block, i = 0, 1, width, width + 1.
RECURSIVE block_pixels(_, _, _, _, _, _, _)
block_pixels(output, data, offsets, plane3, output_pos, bgr, n) ==
    IF n > Len(offsets) THEN output
    ELSE
      LET i == offsets[n]
          base == Shl(data[plane3 + i + 1], 7)
      IN block_pixels(
           [output EXCEPT ![output_pos + 3 * i + 1] = shift_clamp(base + bgr[1]),
                          ![output_pos + 3 * i + 2] = shift_clamp(base + bgr[2]),
                          ![output_pos + 3 * i + 3] = shift_clamp(base + bgr[3])],
           data, offsets, plane3, output_pos, bgr, n + 1)

\* lines 75-93: block k (row-major over the half-resolution grid).
RECURSIVE filter_blocks(_, _, _, _, _)
filter_blocks(output, data, width, height, k) ==
    LET half == Shr(width, 1)
        size == width * height
        stride == width * 3
    IN IF half = 0 \/ k >= half * Shr(height, 1) THEN [ok |-> TRUE, out |-> output]
       ELSE
         LET plane1 == k
             plane2 == Shr(size, 2) + k
             plane3 == Shr(size, 1) + (k \div half) * (2 * half + width) + 2 * (k % half)
             output_pos == (k \div half) * (6 * half + stride) + 6 * (k % half)
         IN IF \/ plane2 >= Len(data)
               \/ plane3 + width + 1 >= Len(data)
               \/ output_pos + 3 * (width + 1) + 2 >= Len(output)
            THEN [ok |-> FALSE, out |-> output]              \* slice index panics
            ELSE
              LET a == as_i8(data[plane1 + 1])
                  b == as_i8(data[plane2 + 1])
                  bgr == <<226 * a, (-43) * a - 89 * b, 179 * b>>
              IN filter_blocks(
                   block_pixels(output, data, <<0, 1, width, width + 1>>,
                                plane3, output_pos, bgr, 1),
                   data, width, height, k + 1)

\* lines 64-95.
apply_filter(data, width, height) ==
    filter_blocks([i \in 1..(height * width * 3) |-> 0], data, width, height, 0)

-----------------------------------------------------------------------------
(* Rasters: width, height and the pixels, row-major, each <<r, g, b, a>>.  *)

Raster(width, height, px) == [w |-> width, h |-> height, px |-> px]
NoImage == Raster(0, 0, <<>>)

Outcome(st, cause, image) == [st |-> st, cause |-> cause, image |-> image]

\* lines 155-163 and 170-183: ImageBuffer::from_fn visits the pixels in
\* row-major order and the closure reads b, g, r and, with four channels,
\* a from consecutive bytes; alpha is 0xff otherwise.
pixels_from(data, width, height, bpp) ==
    IF width * height * bpp > Len(data) THEN Outcome("panic", "data_index", NoImage)
    ELSE Outcome("ok", "none",
           Raster(width, height,
             [i \in 1..(width * height) |->
                LET pos == (i - 1) * bpp
                IN <<data[pos + 3], data[pos + 2], data[pos + 1],
                     IF bpp = 4 THEN data[pos + 4] ELSE 255>>]))

DropFirst(s, n) == [i \in 1..(Len(s) - n) |-> s[i + n]]

\* Where a delta-filter frame that did not finish ends the caller.
filter_failure(f) == Outcome(f.pc, f.cause, NoImage)

\* lines 132-187: decode_main on a parsed header e (width, height,
\* filter_type, size_orig and the compressed payload data).
decode_main(e, checks, garbage) ==
    LET d == decompress(e.data, e.size_orig)
    IN IF d.pc = "panic" THEN Outcome("panic", d.cause, NoImage)
       ELSE IF e.filter_type = 2 THEN
         LET r == apply_filter(d.output, e.width, e.height)
         IN IF ~r.ok THEN Outcome("panic", "plane_index", NoImage)
            ELSE pixels_from(r.out, e.width, e.height, 3)
       ELSE IF e.filter_type = 3 THEN
         IF Len(d.output) < 4 \/ Len(d.output) < 8 + e.height
         THEN Outcome("panic", "data_index", NoImage)        \* lines 166, 167
         ELSE
           LET channels == Shr(d.output[3] + 256 * d.output[4], 3)
               deltas == [i \in 1..e.height |-> d.output[8 + i]]
               f == apply_delta_filter(DropFirst(d.output, 8 + e.height), deltas,
                                       e.width, e.height, channels, checks, garbage)
           IN IF f.pc # "done" THEN filter_failure(f)
              ELSE pixels_from(f.data, e.width, e.height,
                               IF channels = 4 THEN 4 ELSE 3)
       ELSE Outcome("panic", "todo_filter_kind", NoImage)    \* line 185

-----------------------------------------------------------------------------
(* GeImage::decode_sub.                                                    *)

\* to_lowercase on the names the model uses.
to_lowercase(name) ==
    CASE name = "A.PGD" -> "a.pgd"
      [] name = "B.pgd" -> "b.pgd"
      [] OTHER -> name

\* line 237: apply2(.., BitXor::bitxor) on one channel.
channel_or(p, q) == BitOr(p, q)
channel_op(p, q) == BitXor(p, q)

\* lines 230-234: the alpha operand of the XOR.
sub_alpha_opaque(channels, data, pos) == 255
sub_alpha(channels, data, pos) == IF channels = 4 THEN data[pos + 4] ELSE 0

\* lines 221-239: XOR the decoded sub-image data into the window of image.
composite(image, x, y, width, height, channels, data) ==
    LET bpp == IF channels = 4 THEN 4 ELSE 3
    IN IF width = 0 \/ height = 0 THEN Outcome("ok", "none", image)
       ELSE IF width * height * bpp > Len(data)
       THEN Outcome("panic", "data_index", NoImage)          \* data[pos]
       ELSE IF x + width > image.w \/ y + height > image.h
       THEN Outcome("panic", "pixel_out_of_bounds", NoImage) \* get_pixel_mut
       ELSE Outcome("ok", "none",
              Raster(image.w, image.h,
                [i \in 1..(image.w * image.h) |->
                   LET col == (i - 1) % image.w
                       row == (i - 1) \div image.w
                       pos == ((row - y) * width + (col - x)) * bpp
                       p == image.px[i]
                   IN IF col >= x /\ col < x + width /\ row >= y /\ row < y + height
                      THEN <<channel_op(p[1], data[pos + 3]),
                             channel_op(p[2], data[pos + 2]),
                             channel_op(p[3], data[pos + 1]),
                             channel_op(p[4], sub_alpha(channels, data, pos))>>
                      ELSE p]))

\* lines 214-216: decompress, split off the row modes, delta-filter.  The
\* result's data is the decoded sub-image.
sub_pixels(h, checks, garbage) ==
    LET d == decompress(h.data, h.size_orig)
    IN IF d.pc = "panic" THEN [pc |-> "panic", cause |-> d.cause, data |-> <<>>]
       ELSE IF Len(d.output) < h.height
       THEN [pc |-> "panic", cause |-> "data_index", data |-> <<>>]
       ELSE
         LET f == apply_delta_filter(DropFirst(d.output, h.height),
                    [i \in 1..h.height |-> d.output[i]],
                    h.width, h.height, Shr(h.channels_field, 3), checks, garbage)
         IN [pc |-> f.pc, cause |-> f.cause, data |-> f.data]

\* lines 217-240: look the base up, clone it and composite the decoded
\* sub-image s (a result of sub_pixels) onto the clone.
compose_sub(h, images, s) ==
    LET key == to_lowercase(h.base)
    IN IF s.pc # "done" THEN Outcome(s.pc, s.cause, NoImage)
       ELSE IF key \notin DOMAIN images
       THEN Outcome("panic", "missing_base", NoImage)        \* images[&key]
       ELSE composite(images[key], h.x, h.y, h.width, h.height,
                      Shr(h.channels_field, 3), s.data)

\* lines 189-241: decode_sub on a parsed sub header h against the cache
\* images (a function from lower-cased names to rasters).
decode_sub(h, images, checks, garbage) ==
    compose_sub(h, images, sub_pixels(h, checks, garbage))

-----------------------------------------------------------------------------
(* The sub-image machine: decode_sub against a cache holding one base      *)
(* image, then the composite of lines 221-239 applied once more to the     *)
(* raster decode_sub returned.                                             *)
(*                                                                         *)
(* sub holds the cache (images), the parsed header (h), the build          *)
(* (checks), the base as cached before the call (base), the decoded        *)
(* sub-image (decoded), the raster returned                                *)
(* (image), the raster after the first composite (once), the number of     *)
(* composites done (passes) and the outcome (st, cause).                   *)

\* A payload that decompress expands to bytes: control byte 0 (literal
\* tokens), count, the bytes.
stored(bytes) == <<0, Len(bytes)>> \o bytes

RECURSIVE Flatten(_)
Flatten(ss) == IF ss = <<>> THEN <<>> ELSE Head(ss) \o Flatten(Tail(ss))

BasePixels == {<<0, 0, 0, 255>>, <<255, 128, 1, 7>>}
SubPixels == {<<1, 2, 3, 4>>, <<255, 0, 128, 200>>}
SubModes == {1, 2}
ChannelFields == {24, 32}      \* the packed field, channels = field >> 3

SubHeader(x, y, width, height, field, base, bytes) ==
    [x |-> x, y |-> y, width |-> width, height |-> height,
     channels_field |-> field, base |-> base,
     size_orig |-> Len(bytes), data |-> stored(bytes)]

SubInit ==
    /\ \E bw \in 1..MaxBase, bh \in 1..MaxBase, x \in 0..1, y \in 0..1,
          width \in 0..MaxSubPixels, height \in 0..MaxSubPixels,
          field \in ChannelFields, checks \in BOOLEAN :
         /\ bw * bh <= MaxBasePixels
         /\ width * height <= MaxSubPixels
         /\ \E px \in [1..(bw * bh) -> BasePixels],
               deltas \in [1..height -> SubModes],
               pixels \in [1..(width * height) -> SubPixels] :
              sub = [images |-> [n \in {"a.pgd"} |-> Raster(bw, bh, px)],
                     h |-> SubHeader(x, y, width, height, field, "A.PGD",
                             deltas \o Flatten([i \in 1..(width * height) |->
                                        SubSeq(pixels[i], 1, Shr(field, 3))])),
                     checks |-> checks, base |-> Raster(bw, bh, px),
                     decoded |-> <<>>, image |-> NoImage,
                     once |-> NoImage, passes |-> 0, st |-> "run", cause |-> "none"]
    /\ dec = 0 /\ flt = 0 /\ ldr = 0

\* decode_sub, whole.
DecodeSub ==
    /\ sub.st = "run" /\ sub.passes = 0
    /\ \E garbage \in Garbage :
         LET s == sub_pixels(sub.h, sub.checks, garbage)
             r == compose_sub(sub.h, sub.images, s)
         IN sub' = [sub EXCEPT
                      !.st = r.st, !.cause = r.cause, !.image = r.image,
                      !.once = r.image, !.decoded = s.data,
                      !.passes = IF r.st = "ok" THEN 1 ELSE 0]
    /\ UNCHANGED <<dec, flt, ldr>>

\* lines 221-239 again, on the raster just returned, with the same decoded
\* sub-image.
Recompose ==
    /\ sub.st = "ok" /\ sub.passes = 1
    /\ LET r == composite(sub.image, sub.h.x, sub.h.y, sub.h.width, sub.h.height,
                          Shr(sub.h.channels_field, 3), sub.decoded)
       IN sub' = [sub EXCEPT !.st = r.st, !.cause = r.cause, !.image = r.image,
                             !.passes = 2]
    /\ UNCHANGED <<dec, flt, ldr>>

SubNext == DecodeSub \/ Recompose

SpecSub == SubInit /\ [][SubNext]_vars

SubBase == sub.base

InWindow(i) ==
    LET col == (i - 1) % SubBase.w
        row == (i - 1) \div SubBase.w
    IN /\ col >= sub.h.x /\ col < sub.h.x + sub.h.width
       /\ row >= sub.h.y /\ row < sub.h.y + sub.h.height

\* C8: the XOR composite is self-inverse: after the same decoded sub-image
\* has been composited onto the base and then onto the result, every pixel
\* of the window equals the base pixel in all four channels.
C8_CompositeSelfInverse ==
    sub.passes = 2 =>
      /\ sub.st = "ok"
      /\ \A i \in 1..(SubBase.w * SubBase.h) :
           InWindow(i) => sub.image.px[i] = SubBase.px[i]

\* Two composites were done and the first one changed a window pixel.
C8_Witness ==
    /\ sub.passes = 2 /\ sub.st = "ok"
    /\ \E i \in 1..(SubBase.w * SubBase.h) :
         InWindow(i) /\ sub.once.px[i] # SubBase.px[i]

\* C9: the raster decode_sub returns has the base's dimensions, differs
\* from the base only inside the window, and with 3 channels keeps the
\* base's alpha in every window pixel; the cache still holds the base,
\* unchanged, and nothing else.
C9_SubImageFrame ==
    sub.passes >= 1 =>
      /\ DOMAIN sub.images = {"a.pgd"} /\ sub.images["a.pgd"] = sub.base
      /\ sub.once.w = SubBase.w /\ sub.once.h = SubBase.h
      /\ Len(sub.once.px) = Len(SubBase.px)
      /\ \A i \in 1..(SubBase.w * SubBase.h) :
           /\ ~InWindow(i) => sub.once.px[i] = SubBase.px[i]
           /\ InWindow(i) /\ Shr(sub.h.channels_field, 3) = 3 =>
                sub.once.px[i][4] = SubBase.px[i][4]

\* decode_sub returned a raster for a 3-channel sub-image whose window
\* leaves some base pixel outside and changes some pixel inside.
C9_Witness ==
    /\ sub.passes = 1 /\ Shr(sub.h.channels_field, 3) = 3
    /\ \E i \in 1..(SubBase.w * SubBase.h) : ~InWindow(i)
    /\ \E i \in 1..(SubBase.w * SubBase.h) :
         InWindow(i) /\ sub.once.px[i] # SubBase.px[i]

-----------------------------------------------------------------------------
(* AssetLoader::save: the extraction loop.                                 *)
(*                                                                         *)
(* ldr holds: pacs_left, the archives of self.data still to be handled;    *)
(* all, the directory (pac.metadata) of the archive being handled; todo,   *)
(* its entries the first `for` has not visited yet; main_images and        *)
(* sub_images, the locals of lines 301-302; saved, the names of the        *)
(* entries whose output file was written; sub_runs, the decode_sub calls   *)
(* started for this archive; checks, the build; pc and cause.  pc is       *)
(* "open" before an archive, "entries" inside the first loop, "subs"       *)
(* inside the second, "ok" after Ok(()) and "err" or "panic" when save     *)
(* stopped early.                                                          *)

MAIN_MAGIC == <<71, 69, 32, 0>>
SUB_MAGIC == <<80, 71, 68, 51>>

\* line 304: name.ends_with("pgd"), on the names the model uses.
ends_with_pgd(name) ==
    name \in {"a.pgd", "b.pgd", "c.pgd", "d.pgd", "e.pgd", "s.pgd", "t.pgd", "u.pgd"}

Entry(name, magic, width, height, filter_type, bytes, payload, io_ok) ==
    [name |-> name, magic |-> magic, width |-> width, height |-> height,
     filter_type |-> filter_type, size_orig |-> bytes, data |-> payload,
     x |-> 0, y |-> 0, channels_field |-> 0, base |-> "", io_ok |-> io_ok]

SubEntry(name, x, y, width, height, field, base, bytes) ==
    [name |-> name, magic |-> SUB_MAGIC, width |-> width, height |-> height,
     filter_type |-> 0, size_orig |-> Len(bytes), data |-> stored(bytes),
     x |-> x, y |-> y, channels_field |-> field, base |-> base, io_ok |-> TRUE]

PlanarBytes == <<10, 200, 0, 127, 128, 255>>
DeltaBytesOf(mode) == <<0, 0, 24, 0, 0, 0, 0, 0, mode, 1, 2, 3, 4, 5, 6>>

\* The entries an archive of the model may hold.
Catalog ==
    { \* planar 2x2 main image
      Entry("a.pgd", MAIN_MAGIC, 2, 2, 2, 6, stored(PlanarBytes), TRUE),
      \* delta 2x1 main image, 3 channels, mode 1
      Entry("b.pgd", MAIN_MAGIC, 2, 1, 3, 15, stored(DeltaBytesOf(1)), TRUE),
      \* main image with an unknown filter kind
      Entry("c.pgd", MAIN_MAGIC, 2, 2, 5, 6, stored(PlanarBytes), TRUE),
      \* delta main image with an unknown row mode
      Entry("d.pgd", MAIN_MAGIC, 2, 1, 3, 15, stored(DeltaBytesOf(3)), TRUE),
      \* main image whose payload starts with a back-reference
      Entry("e.pgd", MAIN_MAGIC, 2, 2, 2, 6, <<1, 24, 0>>, TRUE),
      \* sub-images over a.pgd (named in upper case) and over a missing base
      SubEntry("s.pgd", 1, 0, 1, 2, 24, "A.PGD", <<1, 1, 9, 8, 7, 6, 5, 4>>),
      SubEntry("t.pgd", 0, 0, 1, 1, 24, "zz.pgd", <<1, 9, 8, 7>>),
      \* image entry with neither magic
      Entry("u.pgd", <<0, 0, 0, 0>>, 0, 0, 0, 0, <<>>, TRUE),
      \* raw entries: one copied, one whose output file cannot be written
      Entry("r.txt", MAIN_MAGIC, 0, 0, 0, 0, <<>>, TRUE),
      Entry("q.txt", <<1, 2, 3, 4>>, 0, 0, 0, 0, <<>>, FALSE) }

Directories == {m \in SUBSET Catalog : Cardinality(m) <= MaxEntries}

Extend(f, k, v) == [n \in DOMAIN f \cup {k} |-> IF n = k THEN v ELSE f[n]]

save_stop(l, pc, cause) == [l EXCEPT !.pc = pc, !.cause = cause]

\* lines 309-316: the MAIN_MAGIC arm.
main_arm(l, e, garbage) ==
    LET r == decode_main(e, l.checks, garbage)
    IN IF r.st # "ok" THEN save_stop(l, r.st, r.cause)       \* panic or `?`
       ELSE IF ~e.io_ok THEN save_stop(l, "err", "io")       \* image.save(..)?
       ELSE [l EXCEPT !.saved = l.saved \cup {e.name},
                      !.main_images = Extend(l.main_images, e.name, r.image)]

\* lines 330-336, the body of the second loop, run from inside the first.
sub_arm_eager(l, e) ==
    LET r == decode_sub(e, l.main_images, l.checks, 0)
    IN IF r.st # "ok" THEN [save_stop(l, r.st, r.cause) EXCEPT !.sub_runs = l.sub_runs + 1]
       ELSE [l EXCEPT !.saved = l.saved \cup {e.name}, !.sub_runs = l.sub_runs + 1]

\* lines 317-319: the SUB_MAGIC arm.
sub_arm(l, e) == [l EXCEPT !.sub_images = Append(l.sub_images, e)]

\* lines 322-328: an entry that is not an image.
raw_arm(l, e) ==
    IF ~e.io_ok THEN save_stop(l, "err", "io")               \* fs::write(..)?
    ELSE [l EXCEPT !.saved = l.saved \cup {e.name}]

\* lines 330-336: one pass of the second loop.
sub_body(l, garbage) ==
    LET e == Head(l.sub_images)
        r == decode_sub(e, l.main_images, l.checks, garbage)
        m == [l EXCEPT !.sub_images = Tail(l.sub_images),
                       !.sub_runs = l.sub_runs + 1]
    IN IF r.st # "ok" THEN save_stop(m, r.st, r.cause)
       ELSE IF ~e.io_ok THEN save_stop(m, "err", "io")
       ELSE [m EXCEPT !.saved = m.saved \cup {e.name}]

Visited(l, e) == [l EXCEPT !.todo = l.todo \ {e}]

SaveInit ==
    /\ \E n \in 0..MaxPacs, checks \in BOOLEAN :
         ldr = [pacs_left |-> n, all |-> {}, todo |-> {}, main_images |-> <<>>,
                sub_images |-> <<>>, saved |-> {}, sub_runs |-> 0,
                checks |-> checks, pc |-> "open", cause |-> "none"]
    /\ dec = 0 /\ flt = 0 /\ sub = 0

\* line 297 with no archive left, line 338.
SaveReturn ==
    /\ ldr.pc = "open" /\ ldr.pacs_left = 0
    /\ ldr' = [ldr EXCEPT !.pc = "ok"]
    /\ UNCHANGED <<dec, flt, sub>>

\* lines 297-302: the next archive, whatever its directory holds.
OpenPac ==
    /\ ldr.pc = "open" /\ ldr.pacs_left > 0
    /\ \E m \in Directories :
         ldr' = [ldr EXCEPT !.pacs_left = ldr.pacs_left - 1, !.all = m, !.todo = m,
                            !.main_images = <<>>, !.sub_images = <<>>,
                            !.saved = {}, !.sub_runs = 0, !.pc = "entries"]
    /\ UNCHANGED <<dec, flt, sub>>

\* One pass of the first loop; the HashMap yields the entries in any order.
MainImage ==
    /\ ldr.pc = "entries"
    /\ \E e \in ldr.todo, garbage \in Garbage :
         /\ ends_with_pgd(e.name) /\ e.magic = MAIN_MAGIC
         /\ ldr' = main_arm(Visited(ldr, e), e, garbage)
    /\ UNCHANGED <<dec, flt, sub>>

DeferSubImage ==
    /\ ldr.pc = "entries"
    /\ \E e \in ldr.todo :
         /\ ends_with_pgd(e.name) /\ e.magic = SUB_MAGIC
         /\ ldr' = sub_arm(Visited(ldr, e), e)
    /\ UNCHANGED <<dec, flt, sub>>

\* line 320: todo!()
UnknownMagic ==
    /\ ldr.pc = "entries"
    /\ \E e \in ldr.todo :
         /\ ends_with_pgd(e.name) /\ e.magic \notin {MAIN_MAGIC, SUB_MAGIC}
         /\ ldr' = save_stop(Visited(ldr, e), "panic", "todo_magic")
    /\ UNCHANGED <<dec, flt, sub>>

RawEntry ==
    /\ ldr.pc = "entries"
    /\ \E e \in ldr.todo :
         /\ ~ends_with_pgd(e.name)
         /\ ldr' = raw_arm(Visited(ldr, e), e)
    /\ UNCHANGED <<dec, flt, sub>>

\* The first loop's iterator is exhausted.
EntriesDone ==
    /\ ldr.pc = "entries" /\ ldr.todo = {}
    /\ ldr' = [ldr EXCEPT !.pc = "subs"]
    /\ UNCHANGED <<dec, flt, sub>>

SubImage ==
    /\ ldr.pc = "subs" /\ ldr.sub_images # <<>>
    /\ \E garbage \in Garbage : ldr' = sub_body(ldr, garbage)
    /\ UNCHANGED <<dec, flt, sub>>

\* The second loop is exhausted: on to the next archive.
SubsDone ==
    /\ ldr.pc = "subs" /\ ldr.sub_images = <<>>
    /\ ldr' = [ldr EXCEPT !.pc = "open"]
    /\ UNCHANGED <<dec, flt, sub>>

SaveNext ==
    \/ SaveReturn \/ OpenPac \/ MainImage \/ DeferSubImage \/ UnknownMagic
    \/ RawEntry \/ EntriesDone \/ SubImage \/ SubsDone

Spec == SaveInit /\ [][SaveNext]_vars

\* An image entry the first loop decodes: its name ends with "pgd" (only
\* then is the magic read) and its magic is the main magic.
IsMainEntry(e) == ends_with_pgd(e.name) /\ e.magic = MAIN_MAGIC
IsSubEntry(e) == ends_with_pgd(e.name) /\ e.magic = SUB_MAGIC

Terminated == ldr.pc \in {"ok", "err", "panic", "ub"}

\* The entry is decoded and written when nothing else of the archive fails.
MainStandsAlone(e, checks) ==
    /\ IsMainEntry(e) /\ e.io_ok
    /\ \A g \in Garbage : decode_main(e, checks, g).st = "ok"

StandsAlone(e, all, checks) ==
    \/ ~ends_with_pgd(e.name) /\ e.io_ok
    \/ MainStandsAlone(e, checks)
    \/ /\ IsSubEntry(e) /\ e.io_ok
       /\ \E b \in all :
            /\ b.name = to_lowercase(e.base) /\ MainStandsAlone(b, checks)
            /\ \A g \in Garbage :
                 decode_sub(e, [n \in {b.name} |-> decode_main(b, checks, g).image],
                            checks, g).st = "ok"

\* C2: a failure on one entry is isolated to that entry: when save has
\* ended, every entry of the archive that decodes and writes successfully
\* on its own has been persisted, and no entry was left unvisited.
C2_FailureIsIsolated ==
    Terminated =>
      /\ ldr.todo = {} /\ ldr.sub_images = <<>>
      /\ \A e \in ldr.all : StandsAlone(e, ldr.all, ldr.checks) => e.name \in ldr.saved

C3_Inv ==
    ldr.sub_runs > 0 =>
      \A e \in ldr.all : IsMainEntry(e) => e.name \in DOMAIN ldr.main_images

C3_Step ==
    \* once a sub-image decode has started, the cache of that archive is frozen
    /\ ldr.sub_runs > 0 /\ ldr'.pacs_left = ldr.pacs_left =>
         ldr'.main_images = ldr.main_images
    \* a decode_sub call finds every main image cached and inserts nothing
    /\ ldr'.sub_runs > ldr.sub_runs =>
         /\ ldr'.main_images = ldr.main_images
         /\ ldr.todo = {}
         /\ \A e \in ldr.all : IsMainEntry(e) => e.name \in DOMAIN ldr.main_images
    \* the cache changes only by a main-image decode inserting its own
    \* image, or by the next archive starting from an empty cache
    /\ ldr'.main_images # ldr.main_images =>
         \/ ldr'.pacs_left < ldr.pacs_left /\ ldr'.main_images = <<>>
         \/ \E e \in ldr.todo :
              /\ IsMainEntry(e) /\ ldr'.todo = ldr.todo \ {e}
              /\ DOMAIN ldr'.main_images = DOMAIN ldr.main_images \cup {e.name}
              /\ \A n \in DOMAIN ldr.main_images \ {e.name} :
                   ldr'.main_images[n] = ldr.main_images[n]
              /\ \E g \in Garbage :
                   ldr'.main_images[e.name] = decode_main(e, ldr.checks, g).image

\* C3: within one archive, for every iteration order of its directory, no
\* decode_sub starts before every main-magic image entry of the archive
\* has been decoded and cached; the cache is written only by main-image
\* decodes and is not modified once the first decode_sub has started.
C3_TwoPhase == []C3_Inv /\ [][C3_Step]_vars

\* A sub-image was decoded in an archive with two main images, both cached.
C3_Witness ==
    /\ ldr.sub_runs > 0 /\ "s.pgd" \in ldr.saved
    /\ {"a.pgd", "b.pgd"} \subseteq DOMAIN ldr.main_images

\* C4: an unknown filter kind or image magic yields UnsupportedFormat and
\* an unknown delta row mode UnsupportedFilterMode: save sees a typed
\* error (outcome "err") for it, never a panic.
C4_UnknownTagIsTypedError ==
    ldr.cause \in {"todo_filter_kind", "todo_magic", "todo_mode"} => ldr.pc = "err"

====
